---- MODULE Spec2Model ----
(***************************************************************************)
(* Model of scripts/script.js of the Boombox project: two looping time     *)
(* drivers animate the scale of base_jnt and of the two speaker joints,    *)
(* and three touch-gesture subscriptions (pan, pinch, rotate) move, scale  *)
(* and rotate the boombox through planeTracker0 and the placer.            *)
(*                                                                         *)
(* The script runs once at load; everything after that is the reactive     *)
(* runtime re-evaluating the signals the script bound and calling the      *)
(* callbacks it subscribed.  A transform channel therefore holds a SIGNAL  *)
(* (an expression tree); its value at a moment is Eval of that signal.     *)
(* Scalars are exact rationals [num, den], den > 0, in lowest terms.       *)
(***************************************************************************)
EXTENDS Integers, Sequences, FiniteSets, TLC

VARIABLES
    baseDriver,             \* [elapsed, remaining]: position of the 400 ms driver
    speakerDriver,          \* [elapsed, remaining]: position of the 200 ms driver
    baseTransform,          \* [scaleX, scaleY, scaleZ]: bound signals
    speakerLeftTransform,   \* [scaleX, scaleY, scaleZ]: bound signals
    speakerRightTransform,  \* [scaleX, scaleY, scaleZ]: bound signals
    placerTransform,        \* [scaleX, scaleY, scaleZ, rotationY]: bound signals
    planeTracker,           \* [requests, location, state]: trackPoint requests
    pinch,                  \* [scale]: the latest PinchGesture's scale signal
    rotate,                 \* [rotation]: the latest RotateGesture's rotation signal
    subscribed,             \* the snapshot signals' values when the script subscribed
    delivered,              \* number of gesture events the runtime has delivered
    log                     \* history: what each pinch / rotate gesture amounted to

vars == <<baseDriver, speakerDriver, baseTransform, speakerLeftTransform,
          speakerRightTransform, placerTransform, planeTracker, pinch, rotate,
          subscribed, delivered, log>>

animated == <<baseTransform, speakerLeftTransform, speakerRightTransform>>

-----------------------------------------------------------------------------
(* Bounds of the model *)

\* gesture events delivered in one run
MaxEvents == 3

-----------------------------------------------------------------------------
(* Exact rational arithmetic (the runtime's scalars) *)

\* Every operator here takes its arguments by value: x \in {e} evaluates e
\* once, however often the body uses x.
RECURSIVE Gcd(_, _)
Gcd(a, b) == IF b = 0 THEN a ELSE CHOOSE g \in { Gcd(b, r) : r \in {a % b} } : TRUE

Abs(n) == IF n < 0 THEN -n ELSE n

Reduce(n, d) ==
    CHOOSE q \in { [num |-> n \div g, den |-> d \div g] : g \in {Gcd(Abs(n), d)} } : TRUE

\* The rational n / d, d > 0, in lowest terms.
Rat(n, d) == CHOOSE q \in { Reduce(x, y) : x \in {n}, y \in {d} } : TRUE

Num(n) == Rat(n, 1)

RatMul(a, b) ==
    CHOOSE q \in { Rat(x.num * y.num, x.den * y.den) : x \in {a}, y \in {b} } : TRUE

RatAdd(a, b) ==
    CHOOSE q \in { Rat(x.num * y.den + y.num * x.den, x.den * y.den) :
                     x \in {a}, y \in {b} } : TRUE

RatSub(a, b) == CHOOSE q \in { RatAdd(a, Rat(-y.num, y.den)) : y \in {b} } : TRUE

RatLeq(a, b) == \E x \in {a}, y \in {b} : x.num * y.den <= y.num * x.den

RECURSIVE Pow(_, _)
Pow(b, e) == IF e = 0 THEN 1 ELSE b * Pow(b, e - 1)

-----------------------------------------------------------------------------
(* Time drivers *)

Infinity == -1

\* Variant: the base driver plays a single loop.
baseDriverParametersOnce ==
    [durationMilliseconds |-> 400, loopCount |-> 1, mirror |-> TRUE]

baseDriverParameters ==
    [durationMilliseconds |-> 400, loopCount |-> Infinity, mirror |-> TRUE]

speakerDriverParameters ==
    [durationMilliseconds |-> 200, loopCount |-> Infinity, mirror |-> TRUE]

\* The runtime's frame clock, in ms: a twentieth of the shorter loop, so that
\* every frame falls on a tenth of the speaker's progress, where the elastic
\* easing has exact rational values.
TickMs == speakerDriverParameters.durationMilliseconds \div 20

\* Animation.timeDriver(parameters) followed by start(): a running driver at
\* the beginning of its first loop, with loopCount loops to play.
timeDriver(parameters) == [elapsed |-> 0, remaining |-> parameters.loopCount]

\* The driver has played all of its loops.
Finished(driver, parameters) == driver.remaining = 0

\* The frame takes the driver past the end of its loop.
Wraps(driver, parameters) ==
    /\ ~Finished(driver, parameters)
    /\ driver.elapsed + TickMs >= parameters.durationMilliseconds

\* One frame of a started driver.
Advance(driver, parameters) ==
    IF Finished(driver, parameters) THEN driver
    ELSE IF Wraps(driver, parameters)
         THEN [elapsed   |-> driver.elapsed + TickMs - parameters.durationMilliseconds,
               remaining |-> IF driver.remaining = Infinity THEN Infinity
                                                            ELSE driver.remaining - 1]
         ELSE [driver EXCEPT !.elapsed = @ + TickMs]

\* The driver's progress in [0, 1].  A mirrored loop runs forward in its first
\* half and backward in its second, so that it has returned to its starting
\* value by the time the loop has finished.
Progress(driver, parameters) ==
    LET d == parameters.durationMilliseconds
        e == driver.elapsed
    IN  IF Finished(driver, parameters)
        THEN IF parameters.mirror THEN Num(0) ELSE Num(1)
        ELSE IF parameters.mirror
             THEN IF 2 * e <= d THEN Rat(2 * e, d) ELSE Rat(2 * (d - e), d)
             ELSE Rat(e, d)

-----------------------------------------------------------------------------
(* Samplers *)

\* easeInQuint: t^5
EaseInQuint(t) == Rat(Pow(t.num, 5), Pow(t.den, 5))

\* easeOutElastic (period 3/10, amplitude 1):
\*     2^(-10 t) * sin((t - 3/40) * 2 pi / (3/10)) + 1,   0 at t = 0, 1 at t = 1.
\* At t = k/10 the angle is k * 120 - 90 degrees, whose sine is -1 when 3
\* divides k and 1/2 otherwise, so the value is exactly 1 + s / 2^k.
ElasticSine(k) == IF k % 3 = 0 THEN Num(-1) ELSE Rat(1, 2)

EaseOutElastic(t) ==
    LET k == (10 * t.num) \div t.den
    IN  IF t.num = 0 THEN Num(0)
        ELSE IF t.num = t.den THEN Num(1)
        ELSE RatAdd(Num(1), RatMul(Rat(1, Pow(2, k)), ElasticSine(k)))

Ease(name, t) ==
    CASE name = "easeInQuint"    -> EaseInQuint(t)
      [] name = "easeOutElastic" -> EaseOutElastic(t)

\* Variant: the base sampler ends at 1.1.
baseSamplerWide == [ease |-> "easeInQuint", from |-> Rat(9, 10), to |-> Rat(11, 10)]

baseSampler == [ease |-> "easeInQuint", from |-> Rat(9, 10), to |-> Num(1)]

\* Variant: the speaker sampler ends at 1.
speakerSamplerWide == [ease |-> "easeOutElastic", from |-> Rat(7, 10), to |-> Num(1)]

speakerSampler == [ease |-> "easeOutElastic", from |-> Rat(7, 10), to |-> Rat(85, 100)]

\* The sampler's value at progress t: from + (to - from) * ease(t)
Sample(sampler, t) ==
    RatAdd(sampler.from, RatMul(RatSub(sampler.to, sampler.from), Ease(sampler.ease, t)))

-----------------------------------------------------------------------------
(* Signals *)

ConstSignal(v)  == [op |-> "const", v |-> v]
SourceSignal(s) == [op |-> "source", name |-> s]
MulSignal(a, b) == [op |-> "mul", a |-> a, b |-> b]
AddSignal(a, b) == [op |-> "add", a |-> a, b |-> b]

\* Animation.animate(driver, sampler)
baseAnimation    == [op |-> "animate", driver |-> "baseDriver", sampler |-> "baseSampler"]

speakerAnimation == [op |-> "animate", driver |-> "speakerDriver", sampler |-> "speakerSampler"]

Sampler(name) ==
    CASE name = "baseSampler"    -> baseSampler
      [] name = "speakerSampler" -> speakerSampler

DriverParameters(name) ==
    CASE name = "baseDriver"    -> baseDriverParameters
      [] name = "speakerDriver" -> speakerDriverParameters

Driver(name) ==
    CASE name = "baseDriver"    -> baseDriver
      [] name = "speakerDriver" -> speakerDriver

\* The positions a driver with these parameters can be in.
DriverStates(parameters) ==
    [elapsed   : {k * TickMs : k \in 0..(parameters.durationMilliseconds \div TickMs - 1)},
     remaining : IF parameters.loopCount = Infinity THEN {Infinity}
                                                    ELSE 0..parameters.loopCount]

\* Animation.animate(driver, sampler): the sampler's value at the driver's
\* progress, tabulated over the positions in S.
RECURSIVE Animate(_, _)
Animate(a, S) ==
    IF S = {} THEN <<>>
    ELSE LET d == CHOOSE x \in S : TRUE
         IN  (d :> Sample(Sampler(a.sampler), Progress(d, DriverParameters(a.driver))))
                @@ Animate(a, S \ {d})

AnimationValues ==
    (baseAnimation :> Animate(baseAnimation, DriverStates(baseDriverParameters)))
        @@ (speakerAnimation :> Animate(speakerAnimation, DriverStates(speakerDriverParameters)))

SourceValue(name) ==
    CASE name = "pinch.scale"     -> Num(pinch.scale)
      [] name = "rotate.rotation" -> Num(rotate.rotation)

\* The value of a signal in the current state.
RECURSIVE Eval(_)
Eval(sig) ==
    CASE sig.op = "const"   -> sig.v
      [] sig.op = "source"  -> SourceValue(sig.name)
      [] sig.op = "animate" -> AnimationValues[sig][Driver(sig.driver)]
      [] sig.op = "mul"     -> RatMul(Eval(sig.a), Eval(sig.b))
      [] sig.op = "add"     -> RatAdd(Eval(sig.a), Eval(sig.b))

-----------------------------------------------------------------------------
(* The state once the script has run *)

\* What a gesture can carry: a screen location and a gesture state for a pan,
\* a scale factor for a pinch, an angle for a rotation.
PanLocations == {1, 2}
PanStates == {"BEGAN", "ENDED"}
PinchScales == {1, 2, 3}
Rotations == {-1, 0, 1}

\* The placer's scale and y-rotation as the scene file sets them.
ScenePlacers ==
    { [scaleX |-> ConstSignal(Num(s[1])), scaleY |-> ConstSignal(Num(s[2])),
       scaleZ |-> ConstSignal(Num(s[3])), rotationY |-> ConstSignal(Num(s[4]))] :
        s \in {<<1, 1, 1, 0>>, <<1, 2, 3, 1>>} }

\* baseTransform.scaleX / scaleY / scaleZ = baseAnimation
bindBase ==
    [scaleX |-> baseAnimation, scaleY |-> baseAnimation, scaleZ |-> baseAnimation]

\* speakerLeftTransform.scaleX / scaleY / scaleZ = speakerAnimation
bindSpeakerLeft ==
    [scaleX |-> speakerAnimation, scaleY |-> speakerAnimation,
     scaleZ |-> speakerAnimation]

\* Variant: the right speaker's scaleY is bound to the base's animation.
bindSpeakerRightMixed ==
    [scaleX |-> speakerAnimation, scaleY |-> baseAnimation,
     scaleZ |-> speakerAnimation]

\* speakerRightTransform.scaleX / scaleY / scaleZ = speakerAnimation
bindSpeakerRight ==
    [scaleX |-> speakerAnimation, scaleY |-> speakerAnimation,
     scaleZ |-> speakerAnimation]

\* The values of the placer's channels that the snapshots read.
PlacerValues ==
    [lastScaleX |-> Eval(placerTransform.scaleX),
     lastScaleY |-> Eval(placerTransform.scaleY),
     lastScaleZ |-> Eval(placerTransform.scaleZ),
     lastRotationY |-> Eval(placerTransform.rotationY)]

Init ==
    /\ baseDriver = timeDriver(baseDriverParameters)
    /\ speakerDriver = timeDriver(speakerDriverParameters)
    /\ baseTransform = bindBase
    /\ speakerLeftTransform = bindSpeakerLeft
    /\ speakerRightTransform = bindSpeakerRight
    /\ placerTransform \in ScenePlacers
    /\ planeTracker = [requests |-> 0, location |-> 0, state |-> "NONE"]
    /\ pinch = [scale |-> 1]
    /\ rotate = [rotation |-> 0]
    /\ subscribed = PlacerValues
    /\ delivered = 0
    /\ log = [pinches |-> <<>>, rotates |-> <<>>, pans |-> 0,
              pan |-> [location |-> 0, state |-> "NONE"],
              atPinch |-> subscribed, atRotate |-> subscribed]

-----------------------------------------------------------------------------
(* The runtime's frame clock *)

Tick ==
    /\ baseDriver' = Advance(baseDriver, baseDriverParameters)
    /\ speakerDriver' = Advance(speakerDriver, speakerDriverParameters)
    /\ UNCHANGED <<animated, placerTransform, planeTracker, pinch, rotate,
                   subscribed, delivered, log>>

-----------------------------------------------------------------------------
(* Gesture subscriptions *)

\* Variant: the request keeps the tracker's previous location.
trackPointStale(tracker, location, state) ==
    [requests |-> tracker.requests + 1, location |-> tracker.location, state |-> state]

\* planeTracker.trackPoint(location, state)
trackPoint(tracker, location, state) ==
    [requests |-> tracker.requests + 1, location |-> location, state |-> state]

\* TouchGestures.onPan().subscribe(callback)
OnPan(location, state) ==
    /\ delivered < MaxEvents
    /\ planeTracker' = trackPoint(planeTracker, location, state)
    /\ delivered' = delivered + 1
    /\ log' = [log EXCEPT !.pans = @ + 1,
                          !.pan = [location |-> location, state |-> state]]
    /\ UNCHANGED <<baseDriver, speakerDriver, animated, placerTransform, pinch,
                   rotate, subscribed>>

\* The snapshot dictionaries passed to subscribeWithSnapshot: each entry names
\* a channel of placerTransform.
pinchSnapshot ==
    [lastScaleX |-> "scaleX", lastScaleY |-> "scaleY", lastScaleZ |-> "scaleZ"]

rotateSnapshot == [lastRotationY |-> "rotationY"]

\* Variant: each entry's signal sampled once, when the script subscribed.
SnapshotAtSubscription(dictionary) ==
    [n \in DOMAIN dictionary |-> subscribed[n]]

\* The values the callback receives: each entry's signal sampled at the time
\* the gesture is detected.
Snapshot(dictionary) ==
    [n \in DOMAIN dictionary |-> Eval(placerTransform[dictionary[n]])]

\* Variant: scaleY is computed from the snapshot of scaleX.
PinchCallbackCopied(transform, snapshot) ==
    [transform EXCEPT
        !.scaleX = MulSignal(SourceSignal("pinch.scale"), ConstSignal(snapshot.lastScaleX)),
        !.scaleY = MulSignal(SourceSignal("pinch.scale"), ConstSignal(snapshot.lastScaleX)),
        !.scaleZ = MulSignal(SourceSignal("pinch.scale"), ConstSignal(snapshot.lastScaleZ))]

\* The pinch callback: each scale channel becomes gesture.scale times the
\* snapshot value of that channel.
PinchCallback(transform, snapshot) ==
    [transform EXCEPT
        !.scaleX = MulSignal(SourceSignal("pinch.scale"), ConstSignal(snapshot.lastScaleX)),
        !.scaleY = MulSignal(SourceSignal("pinch.scale"), ConstSignal(snapshot.lastScaleY)),
        !.scaleZ = MulSignal(SourceSignal("pinch.scale"), ConstSignal(snapshot.lastScaleZ))]

\* Variant: the pinch callback scales the base, whose scale is animated,
\* not the placer.
OnPinchBase(s) ==
    /\ delivered < MaxEvents
    /\ pinch' = [scale |-> s]
    /\ baseTransform' =
         [scaleX |-> MulSignal(SourceSignal("pinch.scale"), ConstSignal(Eval(baseTransform.scaleX))),
          scaleY |-> MulSignal(SourceSignal("pinch.scale"), ConstSignal(Eval(baseTransform.scaleY))),
          scaleZ |-> MulSignal(SourceSignal("pinch.scale"), ConstSignal(Eval(baseTransform.scaleZ)))]
    /\ delivered' = delivered + 1
    /\ log' = [log EXCEPT !.pinches = Append(@, s)]
    /\ UNCHANGED <<baseDriver, speakerDriver, speakerLeftTransform,
                   speakerRightTransform, placerTransform, planeTracker, rotate,
                   subscribed>>

\* TouchGestures.onPinch().subscribeWithSnapshot(pinchSnapshot, callback):
\* a pinch gesture whose scale signal reads s is detected.
OnPinch(s) ==
    /\ delivered < MaxEvents
    /\ pinch' = [scale |-> s]
    /\ placerTransform' = PinchCallback(placerTransform, Snapshot(pinchSnapshot))
    /\ delivered' = delivered + 1
    /\ log' = [log EXCEPT !.pinches = Append(@, s),
                          !.atPinch = PlacerValues]
    /\ UNCHANGED <<baseDriver, speakerDriver, animated, planeTracker, rotate,
                   subscribed>>

\* The fingers of the pinch in progress move: its scale signal now reads s.
PinchScaleChanged(s) ==
    /\ delivered < MaxEvents
    /\ log.pinches # <<>>
    /\ s # pinch.scale
    /\ pinch' = [scale |-> s]
    /\ delivered' = delivered + 1
    /\ log' = [log EXCEPT !.pinches[Len(log.pinches)] = s]
    /\ UNCHANGED <<baseDriver, speakerDriver, animated, placerTransform,
                   planeTracker, rotate, subscribed>>

\* Variant: the gesture's rotation is added without being negated.
RotateCallbackSameSign(transform, snapshot) ==
    [transform EXCEPT
        !.rotationY = AddSignal(SourceSignal("rotate.rotation"),
                                ConstSignal(snapshot.lastRotationY))]

\* Variant: the rotate callback also resets the placer's scaleX.
RotateCallbackRescales(transform, snapshot) ==
    LET correctRotation == MulSignal(SourceSignal("rotate.rotation"), ConstSignal(Num(-1)))
    IN  [transform EXCEPT
            !.scaleX = ConstSignal(Num(1)),
            !.rotationY = AddSignal(correctRotation, ConstSignal(snapshot.lastRotationY))]

\* The rotate callback: rotationY becomes gesture.rotation times -1, plus the
\* snapshot value of rotationY.
RotateCallback(transform, snapshot) ==
    LET correctRotation == MulSignal(SourceSignal("rotate.rotation"), ConstSignal(Num(-1)))
    IN  [transform EXCEPT
            !.rotationY = AddSignal(correctRotation, ConstSignal(snapshot.lastRotationY))]

\* TouchGestures.onRotate().subscribeWithSnapshot(rotateSnapshot, callback):
\* a rotate gesture whose rotation signal reads r is detected.
OnRotate(r) ==
    /\ delivered < MaxEvents
    /\ rotate' = [rotation |-> r]
    /\ placerTransform' = RotateCallback(placerTransform, Snapshot(rotateSnapshot))
    /\ delivered' = delivered + 1
    /\ log' = [log EXCEPT !.rotates = Append(@, r),
                          !.atRotate = PlacerValues]
    /\ UNCHANGED <<baseDriver, speakerDriver, animated, planeTracker, pinch,
                   subscribed>>

\* The fingers of the rotation in progress move: its rotation signal now reads r.
RotationChanged(r) ==
    /\ delivered < MaxEvents
    /\ log.rotates # <<>>
    /\ r # rotate.rotation
    /\ rotate' = [rotation |-> r]
    /\ delivered' = delivered + 1
    /\ log' = [log EXCEPT !.rotates[Len(log.rotates)] = r]
    /\ UNCHANGED <<baseDriver, speakerDriver, animated, placerTransform,
                   planeTracker, pinch, subscribed>>

Pan == \E location \in PanLocations, state \in PanStates : OnPan(location, state)
Pinch == \E s \in PinchScales : OnPinch(s)
PinchMove == \E s \in PinchScales : PinchScaleChanged(s)
Rotate == \E r \in Rotations : OnRotate(r)
RotateMove == \E r \in Rotations : RotationChanged(r)

Next == Tick \/ Pan \/ Pinch \/ PinchMove \/ Rotate \/ RotateMove

Spec == Init /\ [][Next]_vars

\* The runtime renders frame after frame.
FairSpec == Spec /\ WF_vars(Tick)

-----------------------------------------------------------------------------
(* Channel values *)

ScaleX(transform) == Eval(transform.scaleX)
ScaleY(transform) == Eval(transform.scaleY)
ScaleZ(transform) == Eval(transform.scaleZ)
RotationY(transform) == Eval(transform.rotationY)

\* The values of the transform's three scale channels.
Scales(transform) ==
    { Eval(sig) : sig \in {transform.scaleX, transform.scaleY, transform.scaleZ} }

Within(v, lo, hi) == RatLeq(lo, v) /\ RatLeq(v, hi)

RECURSIVE Product(_)
Product(seq) == IF seq = <<>> THEN 1 ELSE Head(seq) * Product(Tail(seq))

RECURSIVE Sum(_)
Sum(seq) == IF seq = <<>> THEN 0 ELSE Head(seq) + Sum(Tail(seq))

\* What a step was
PinchStep  == log'.pinches # log.pinches
RotateStep == log'.rotates # log.rotates
PanStep    == log'.pans # log.pans
GestureStep == delivered' # delivered

-----------------------------------------------------------------------------
(* C1 *)

\* C1 as stated: after a pinch gesture with scale factor s, every scale
\* channel of the placer is s times the value the channel had when the script
\* subscribed, whatever gestures came before.
C1_ScaledFromSubscription ==
    log.pinches # <<>> =>
        /\ ScaleX(placerTransform) = RatMul(Num(pinch.scale), subscribed.lastScaleX)
        /\ ScaleY(placerTransform) = RatMul(Num(pinch.scale), subscribed.lastScaleY)
        /\ ScaleZ(placerTransform) = RatMul(Num(pinch.scale), subscribed.lastScaleZ)

\* C1 amended: after a pinch gesture with scale factor s, every scale channel
\* of the placer is s times the value that channel had when the gesture was
\* detected, whatever gestures came before.
C1_ScaledFromDetection ==
    log.pinches # <<>> =>
        /\ ScaleX(placerTransform) = RatMul(Num(pinch.scale), log.atPinch.lastScaleX)
        /\ ScaleY(placerTransform) = RatMul(Num(pinch.scale), log.atPinch.lastScaleY)
        /\ ScaleZ(placerTransform) = RatMul(Num(pinch.scale), log.atPinch.lastScaleZ)

\* A second pinch, with a factor other than 1, of a placer whose three scales
\* differ and were changed by the first pinch; a rotation came in between.
C1_Witness ==
    /\ Len(log.pinches) = 2
    /\ log.pinches[1] # 1
    /\ pinch.scale # 1
    /\ log.rotates # <<>>
    /\ subscribed.lastScaleX # subscribed.lastScaleY
    /\ log.atPinch.lastScaleY # subscribed.lastScaleY

-----------------------------------------------------------------------------
(* C2 *)

\* C2 as stated: after a rotate gesture with rotation r, the placer's
\* rotationY is -r plus the y-rotation the placer had when the script
\* subscribed, whatever gestures came before.
C2_RotatedFromSubscription ==
    log.rotates # <<>> =>
        RotationY(placerTransform) =
            RatAdd(Num(-rotate.rotation), subscribed.lastRotationY)

\* C2 amended: after a rotate gesture with rotation r, the placer's rotationY
\* is -r plus the y-rotation the placer had when the gesture was detected,
\* whatever gestures came before.
C2_RotatedFromDetection ==
    log.rotates # <<>> =>
        RotationY(placerTransform) =
            RatAdd(Num(-rotate.rotation), log.atRotate.lastRotationY)

\* A second rotation, by a non-zero angle, after a first one that turned the
\* placer.
C2_Witness ==
    /\ Len(log.rotates) = 2
    /\ log.rotates[1] # 0
    /\ rotate.rotation # 0
    /\ log.atRotate.lastRotationY # subscribed.lastRotationY

-----------------------------------------------------------------------------
(* C3 *)

\* C3: every pan gesture makes exactly one trackPoint request, carrying that
\* gesture's location and state, and nothing else makes one; so the tracker
\* holds the location of the latest pan.
C3_PanTracksPoint ==
    [][ /\ PanStep =>
              /\ planeTracker'.requests = planeTracker.requests + 1
              /\ planeTracker'.location = log'.pan.location
              /\ planeTracker'.state = log'.pan.state
        /\ ~PanStep => planeTracker' = planeTracker ]_vars

\* Two pans to different locations, the later one tracked.
C3_Witness ==
    /\ log.pans = 2
    /\ planeTracker.requests = 2
    /\ planeTracker.location = 2
    /\ planeTracker.state = "ENDED"
    /\ log.pan = [location |-> 2, state |-> "ENDED"]

-----------------------------------------------------------------------------
(* C4 *)

\* C4: at every point of the base driver's progress, in every state after
\* load, the base's scaleX, scaleY and scaleZ lie within [0.9, 1].
C4_BaseWithinBounds ==
    \A v \in Scales(baseTransform) : Within(v, Rat(9, 10), Num(1))

\* The base at the upper end of its range, half way through a loop, with
\* gestures delivered.
C4_Witness ==
    /\ delivered > 0
    /\ baseDriver.elapsed = 200
    /\ ScaleY(baseTransform) = Num(1)

-----------------------------------------------------------------------------
(* C5 *)

-----------------------------------------------------------------------------
(* C6 *)

\* C6: after two pinch gestures with factors a then b, starting from scale v,
\* every scale channel of the placer is v * a * b.
C6_PinchesCompound ==
    Len(log.pinches) = 2 =>
        LET ab == Num(log.pinches[1] * log.pinches[2])
        IN  /\ ScaleX(placerTransform) = RatMul(subscribed.lastScaleX, ab)
            /\ ScaleY(placerTransform) = RatMul(subscribed.lastScaleY, ab)
            /\ ScaleZ(placerTransform) = RatMul(subscribed.lastScaleZ, ab)

\* Two pinches with different factors, neither of them 1.
C6_Witness ==
    /\ log.pinches = <<2, 3>>
    /\ ScaleZ(placerTransform) = Num(18)
    /\ delivered = 2

-----------------------------------------------------------------------------
(* C7 *)

\* C7: no gesture changes what the scale channels of the base and of the two
\* speakers are bound to, nor their values: they stay bound to baseAnimation
\* and speakerAnimation.
C7_GesturesLeaveAnimations ==
    [][ GestureStep =>
          /\ Scales(baseTransform)' = Scales(baseTransform)
          /\ Scales(speakerLeftTransform)' = Scales(speakerLeftTransform)
          /\ Scales(speakerRightTransform)' = Scales(speakerRightTransform)
          /\ \A c \in {"scaleX", "scaleY", "scaleZ"} :
                /\ baseTransform'[c] = baseAnimation
                /\ speakerLeftTransform'[c] = speakerAnimation
                /\ speakerRightTransform'[c] = speakerAnimation ]_vars

\* A pan, a pinch and a rotation delivered while the animations run.
C7_Witness ==
    /\ log.pans > 0
    /\ log.pinches # <<>>
    /\ log.rotates # <<>>
    /\ pinch.scale = 3
    /\ baseDriver.elapsed = 50
    /\ baseTransform = bindBase

-----------------------------------------------------------------------------
(* C8 *)

\* C8: in every state after load the two speakers have the same scale on each
\* channel, and within the base and each speaker scaleX = scaleY = scaleZ.
C8_SpeakersAlike ==
    /\ Cardinality(Scales(baseTransform)) = 1
    /\ Cardinality(Scales(speakerLeftTransform) \cup Scales(speakerRightTransform)) = 1

\* Mid-animation, the base and the speakers at different scales.
C8_Witness ==
    /\ speakerDriver.elapsed = 30
    /\ baseDriver.elapsed = 230
    /\ ScaleX(speakerLeftTransform) # ScaleX(baseTransform)
    /\ ScaleX(speakerRightTransform) = RatAdd(Rat(7, 10), RatMul(Rat(15, 100), Rat(7, 8)))

-----------------------------------------------------------------------------
(* C9 *)

\* C9: neither driver ever finishes; whenever a driver is at the end of a loop
\* its animated value is back at its starting value (0.9, 0.7), which it is
\* infinitely often, leaving it in between; and the speaker driver completes
\* two loops for each loop of the base driver: one half way through the base
\* driver's loop and one together with it.
C9_DriversLoopForever ==
    /\ [][ /\ ~Finished(baseDriver', baseDriverParameters)
           /\ ~Finished(speakerDriver', speakerDriverParameters)
           /\ baseDriver'.elapsed = 0 => ScaleX(baseTransform)' = Rat(9, 10)
           /\ speakerDriver'.elapsed = 0 => ScaleX(speakerLeftTransform)' = Rat(7, 10)
           /\ baseDriver'.elapsed # baseDriver.elapsed =>
                (speakerDriver'.elapsed = 0 <=>
                    baseDriver'.elapsed \in {0, speakerDriverParameters.durationMilliseconds})
           /\ baseDriver'.elapsed < baseDriverParameters.durationMilliseconds ]_vars
    /\ []<>(ScaleX(baseTransform) = Rat(9, 10) /\ ScaleX(speakerLeftTransform) = Rat(7, 10))
    /\ []<>(ScaleX(baseTransform) # Rat(9, 10) /\ ScaleX(speakerLeftTransform) # Rat(7, 10))

\* Half way through the base driver's loop the speaker driver has completed
\* one: the speakers are back at 0.7 while the base is at its far end.
C9_Witness ==
    /\ baseDriver = [elapsed |-> 200, remaining |-> Infinity]
    /\ speakerDriver = [elapsed |-> 0, remaining |-> Infinity]
    /\ ScaleX(baseTransform) = Num(1)
    /\ ScaleX(speakerRightTransform) = Rat(7, 10)

-----------------------------------------------------------------------------
(* C10 *)

\* The placer's scale is its scale at load times the product of the pinches'
\* factors, its rotationY its rotationY at load minus the sum of the rotations'
\* angles: neither depends on the order the gestures came in.
OrderIndependent ==
    /\ ScaleX(placerTransform) = RatMul(subscribed.lastScaleX, Num(Product(log.pinches)))
    /\ ScaleY(placerTransform) = RatMul(subscribed.lastScaleY, Num(Product(log.pinches)))
    /\ ScaleZ(placerTransform) = RatMul(subscribed.lastScaleZ, Num(Product(log.pinches)))
    /\ RotationY(placerTransform) = RatSub(subscribed.lastRotationY, Num(Sum(log.rotates)))

\* C10: a pinch leaves the placer's rotationY and the plane tracker as they
\* were, a rotation leaves the placer's three scales and the plane tracker as
\* they were, a pan leaves the placer's transform as it was; and the placer's
\* scale and rotationY depend only on which pinches and which rotations were
\* made (the product of the factors, the sum of the angles), not on how they
\* were interleaved.
C10_HandlersDisjoint ==
    /\ []OrderIndependent
    /\ [][ /\ (PinchStep \/ pinch' # pinch) =>
                /\ RotationY(placerTransform)' = RotationY(placerTransform)
                /\ placerTransform'.rotationY = placerTransform.rotationY
                /\ planeTracker' = planeTracker
           /\ (RotateStep \/ rotate' # rotate) =>
                /\ ScaleX(placerTransform)' = ScaleX(placerTransform)
                /\ ScaleY(placerTransform)' = ScaleY(placerTransform)
                /\ ScaleZ(placerTransform)' = ScaleZ(placerTransform)
                /\ \A c \in {"scaleX", "scaleY", "scaleZ"} :
                      placerTransform'[c] = placerTransform[c]
                /\ planeTracker' = planeTracker
           /\ PanStep =>
                /\ placerTransform' = placerTransform
                /\ pinch' = pinch
                /\ rotate' = rotate ]_vars

\* A rotation between two pinches, each of them changing the placer.
C10_Witness ==
    /\ Len(log.pinches) = 2
    /\ Len(log.rotates) = 1
    /\ Product(log.pinches) = 6
    /\ rotate.rotation = -1
    /\ log.atRotate.lastScaleZ # subscribed.lastScaleZ
    /\ ScaleZ(placerTransform) # log.atRotate.lastScaleZ

====
